---- MODULE Spec2Model ----
(***************************************************************************)
(* Model of chethan457/air_quality: the interactive upload application     *)
(* (src/app3.py) and the batch pipeline (src/pipline_code.py).             *)
(*                                                                         *)
(* Numbers.  Concentrations are Python floats parsed from OCR text; the    *)
(* model keeps them as integers in hundredths (1.05 is 105, 30.5 is 3050). *)
(* A sub-index is an exact rational <<n, d>> in lowest terms with d > 0.   *)
(* The breakpoint tables are written in hundredths as well.  On the inputs *)
(* enumerated below the exact value and the double that Python computes    *)
(* select the same band, and round to the same integer.                    *)
(***************************************************************************)
EXTENDS Integers, Sequences, FiniteSets, TLC

VARIABLES
    conc, pollutant,  \* arguments of a call of get_sub_index
    impl,             \* "none", or the program whose get_sub_index was called
    siRes,            \* <<>>, or <<r>> with r the value the call returned
    uploaded_file,    \* <<>>, or <<f>> with f the file in the uploader
    logExists,        \* os.path.exists("aqi_logs.csv")
    logFile,          \* the lines of aqi_logs.csv, each a sequence of cells
    new_data,         \* <<>>, or <<row>>: the row of the last 'Process Image'
    all_data,         \* all_data of the last batch run
    batchDone,        \* whether a batch run has completed
    produced,         \* history: the rows the upload handler has appended
    dash,             \* what the dashboard's last load of the log gave
    clock             \* datetime.now(), counted in rows stamped so far

vars == <<conc, pollutant, impl, siRes, uploaded_file, logExists,
          logFile, new_data, all_data, batchDone, produced, dash, clock>>

subVars == <<conc, pollutant, impl, siRes>>
appVars == <<uploaded_file, logExists, logFile, new_data, all_data,
             batchDone, produced, dash, clock>>

(***************************************************************************)
(* Bounds of the model.                                                    *)
(***************************************************************************)
MaxDet == 5
MaxClock == 3
MaxFolder == 2

(***************************************************************************)
(* Rational arithmetic for the sub-index.                                  *)
(***************************************************************************)
RECURSIVE Gcd(_, _)
Gcd(a, b) == IF b = 0 THEN a ELSE Gcd(b, a % b)

Rat(n, d) == LET g == Gcd(IF n < 0 THEN -n ELSE n, d) IN <<n \div g, d \div g>>

RatFloor(r) == r[1] \div r[2]

RatLess(a, b) ==
    \/ RatFloor(a) < RatFloor(b)
    \/ /\ RatFloor(a) = RatFloor(b)
       /\ (a[1] % a[2]) * b[2] < (b[1] % b[2]) * a[2]

\* Python max(a, b, c): the first of the largest arguments.
PyMax3(a, b, c) ==
    LET ab == IF RatLess(a, b) THEN b ELSE a
    IN IF RatLess(ab, c) THEN c ELSE ab

\* Python round(x) of a float: to the nearest integer, ties to even.
PyRound(r) ==
    LET f == RatFloor(r)
        twice == 2 * (r[1] % r[2])
    IN IF twice < r[2] THEN f
       ELSE IF twice > r[2] THEN f + 1
       ELSE IF f % 2 = 0 THEN f ELSE f + 1

SetMin(S) == CHOOSE x \in S : \A y \in S : x <= y
SetMax(S) == CHOOSE x \in S : \A y \in S : y <= x

(***************************************************************************)
(* src/app3.py: AQIAutoDetector.bps and get_sub_index.                     *)
(***************************************************************************)
app3_bps ==
    [PM25 |-> << <<0, 3000, 0, 50>>, <<3100, 6000, 51, 100>>,
                 <<6100, 9000, 101, 200>>, <<9100, 12000, 201, 300>>,
                 <<12100, 25000, 301, 400>>, <<25000, 50000, 401, 500>> >>,
     PM10 |-> << <<0, 5000, 0, 50>>, <<5100, 10000, 51, 100>>,
                 <<10100, 25000, 101, 200>>, <<25100, 35000, 201, 300>>,
                 <<35100, 43000, 301, 400>>, <<43000, 50000, 401, 500>> >>,
     CO   |-> << <<0, 100, 0, 50>>, <<110, 200, 51, 100>>,
                 <<210, 1000, 101, 200>>, <<1010, 1700, 201, 300>>,
                 <<1710, 3400, 301, 400>>, <<3410, 10000, 401, 500>> >>]

\* Indices of the bands of a table whose range contains c (line 23's test).
app3_hits(c, p) ==
    {i \in DOMAIN app3_bps[p] :
        app3_bps[p][i][1] <= c /\ c <= app3_bps[p][i][2]}

\* Variant of get_sub_index in which a later matching band wins.
app3_get_sub_index_last(c, p) ==
    IF p \notin DOMAIN app3_bps \/ c <= 0 THEN Rat(0, 1)
    ELSE IF app3_hits(c, p) = {} THEN Rat(500, 1)
    ELSE LET b == app3_bps[p][SetMax(app3_hits(c, p))]
         IN Rat((b[4] - b[3]) * (c - b[1]) + b[3] * (b[2] - b[1]), b[2] - b[1])

\* Variant of get_sub_index without the test conc <= 0.
app3_get_sub_index_noguard(c, p) ==
    IF p \notin DOMAIN app3_bps THEN Rat(0, 1)
    ELSE IF app3_hits(c, p) = {} THEN Rat(500, 1)
    ELSE LET b == app3_bps[p][SetMin(app3_hits(c, p))]
         IN Rat((b[4] - b[3]) * (c - b[1]) + b[3] * (b[2] - b[1]), b[2] - b[1])

\* The loop returns at the first band, in table order, that contains c.
app3_get_sub_index(c, p) ==
    IF p \notin DOMAIN app3_bps \/ c <= 0 THEN Rat(0, 1)
    ELSE IF app3_hits(c, p) = {} THEN Rat(500, 1)
    ELSE LET b == app3_bps[p][SetMin(app3_hits(c, p))]
         IN Rat((b[4] - b[3]) * (c - b[1]) + b[3] * (b[2] - b[1]), b[2] - b[1])

(***************************************************************************)
(* src/pipline_code.py: AQIAutoDetector.bps and get_sub_index.             *)
(***************************************************************************)
pipline_bps ==
    [PM25 |-> << <<0, 3000, 0, 50>>, <<3100, 6000, 51, 100>>,
                 <<6100, 9000, 101, 200>>, <<9100, 12000, 201, 300>>,
                 <<12100, 25000, 301, 400>>, <<25000, 50000, 401, 500>> >>,
     PM10 |-> << <<0, 5000, 0, 50>>, <<5100, 10000, 51, 100>>,
                 <<10100, 25000, 101, 200>>, <<25100, 35000, 201, 300>>,
                 <<35100, 43000, 301, 400>>, <<43000, 50000, 401, 500>> >>,
     CO   |-> << <<0, 100, 0, 50>>, <<110, 200, 51, 100>>,
                 <<210, 1000, 101, 200>>, <<1010, 1700, 201, 300>>,
                 <<1710, 3400, 301, 400>>, <<3410, 10000, 401, 500>> >>]

pipline_hits(c, p) ==
    {i \in DOMAIN pipline_bps[p] :
        pipline_bps[p][i][1] <= c /\ c <= pipline_bps[p][i][2]}

pipline_get_sub_index(c, p) ==
    IF p \notin DOMAIN pipline_bps \/ c <= 0 THEN Rat(0, 1)
    ELSE IF pipline_hits(c, p) = {} THEN Rat(500, 1)
    ELSE LET b == pipline_bps[p][SetMin(pipline_hits(c, p))]
         IN Rat((b[4] - b[3]) * (c - b[1]) + b[3] * (b[2] - b[1]), b[2] - b[1])

(***************************************************************************)
(* OCR text.  A text is a sequence of one-character strings over the       *)
(* allowlist '0123456789.'.                                                *)
(***************************************************************************)
Digits == {"0", "1", "2", "3", "4", "5", "6", "7", "8", "9"}

DigitVal(ch) ==
    CASE ch = "0" -> 0 [] ch = "1" -> 1 [] ch = "2" -> 2 [] ch = "3" -> 3
      [] ch = "4" -> 4 [] ch = "5" -> 5 [] ch = "6" -> 6 [] ch = "7" -> 7
      [] ch = "8" -> 8 [] ch = "9" -> 9

\* Position of the first "." of a text, or Len(text) + 1 when it has none.
FirstDot(text) ==
    IF \E i \in 1..Len(text) : text[i] = "."
    THEN SetMin({i \in 1..Len(text) : text[i] = "."})
    ELSE Len(text) + 1

\* text.replace('.', '', 1): the text without its first ".".
ReplaceFirstDot(text) ==
    LET k == FirstDot(text)
    IN [i \in 1..(IF k <= Len(text) THEN Len(text) - 1 ELSE Len(text)) |->
           IF i < k THEN text[i] ELSE text[i + 1]]

\* str.isdigit(): not empty and every character a digit.
IsDigit(text) == Len(text) > 0 /\ \A i \in 1..Len(text) : text[i] \in Digits

\* The numeric filter text.replace('.', '', 1).isdigit().
IsNumeric(text) == IsDigit(ReplaceFirstDot(text))

RECURSIVE DigitsValue(_)
DigitsValue(ds) ==
    IF Len(ds) = 0 THEN 0
    ELSE 10 * DigitsValue(SubSeq(ds, 1, Len(ds) - 1)) + DigitVal(ds[Len(ds)])

\* float(text) in hundredths, for a text that passed the numeric filter and
\* has at most two digits after the point.
ParseFloat(text) ==
    LET k == FirstDot(text)
        ip == SubSeq(text, 1, k - 1)
        fp == SubSeq(text, k + 1, Len(text))
    IN 100 * DigitsValue(ip)
         + (IF Len(fp) = 0 THEN 0
            ELSE IF Len(fp) = 1 THEN 10 * DigitsValue(fp)
            ELSE DigitsValue(SubSeq(fp, 1, 2)))

(***************************************************************************)
(* Detections and the field classifier.  A detection is a record           *)
(* [bbox, text]: four corner points <<x, y>> and the recognised text (the  *)
(* confidence is read by neither program).  An image is [h, w, ocr], ocr   *)
(* being what reader.readtext returns for it.                              *)
(***************************************************************************)
center_y(bbox) == Rat(bbox[1][2] + bbox[2][2] + bbox[3][2] + bbox[4][2], 4)
center_x(bbox) == Rat(bbox[1][1] + bbox[2][1] + bbox[3][1] + bbox[4][1], 4)

\* 0.35 * w < center_x < 0.65 * w
InBand(bbox, w) ==
    /\ RatLess(Rat(35 * w, 100), center_x(bbox))
    /\ RatLess(center_x(bbox), Rat(65 * w, 100))

\* Order of the tuples (center_y, value) under list.sort().
PairLess(a, b) == RatLess(a[1], b[1]) \/ (a[1] = b[1] /\ a[2] < b[2])

RECURSIVE InsertSorted(_, _)
InsertSorted(x, s) ==
    IF Len(s) = 0 THEN <<x>>
    ELSE IF PairLess(x, Head(s)) THEN <<x>> \o s
    ELSE <<Head(s)>> \o InsertSorted(x, Tail(s))

RECURSIVE SortPairs(_)
SortPairs(s) ==
    IF Len(s) = 0 THEN <<>> ELSE InsertSorted(Head(s), SortPairs(Tail(s)))

\* The loop over raw_results: detected_numbers before the sort.
RECURSIVE detected_numbers(_, _)
detected_numbers(raw, w) ==
    IF Len(raw) = 0 THEN <<>>
    ELSE LET d == Head(raw)
             rest == detected_numbers(Tail(raw), w)
         IN IF IsNumeric(d.text) /\ InBand(d.bbox, w)
            THEN << <<center_y(d.bbox), ParseFloat(d.text)>> >> \o rest
            ELSE rest

\* Variant that fills the fields from however many numbers were kept.
app3_target_partial(dn) ==
    [i \in 1..4 |-> IF i <= Len(dn) THEN dn[i][2] ELSE 0]

\* Variant that takes the first four numbers instead of the last four.
app3_target_first(dn) ==
    IF Len(dn) >= 4 THEN <<dn[1][2], dn[2][2], dn[3][2], dn[4][2]>>
    ELSE <<0, 0, 0, 0>>

\* Lines 40-44: the four fields, 0 unless at least four numbers were kept.
app3_target(dn) ==
    IF Len(dn) >= 4
    THEN LET n == Len(dn) IN <<dn[n - 3][2], dn[n - 2][2], dn[n - 1][2], dn[n][2]>>
    ELSE <<0, 0, 0, 0>>

app3_process_image_data(img, filename, now) ==
    LET dn == SortPairs(detected_numbers(img.ocr, img.w))
        v == app3_target(dn)
        si_pm25 == app3_get_sub_index(v[1], "PM25")
        si_pm10 == app3_get_sub_index(v[2], "PM10")
        si_co == app3_get_sub_index(v[3], "CO")
    IN [Filename |-> filename, Timestamp |-> now,
        PM25 |-> v[1], PM10 |-> v[2], CO |-> v[3], CO2 |-> v[4],
        Final_AQI |-> Rat(PyRound(PyMax3(si_pm25, si_pm10, si_co)), 1)]

\* Lines 61-69 of the batch pipeline.
pipline_target(dn) ==
    IF Len(dn) >= 4
    THEN LET n == Len(dn) IN <<dn[n - 3][2], dn[n - 2][2], dn[n - 1][2], dn[n][2]>>
    ELSE <<0, 0, 0, 0>>

\* The body of the loop of run for one readable image file (lines 38-77).
pipline_row(img, filename, now) ==
    LET dn == SortPairs(detected_numbers(img.ocr, img.w))
        v == pipline_target(dn)
        si_pm25 == pipline_get_sub_index(v[1], "PM25")
        si_pm10 == pipline_get_sub_index(v[2], "PM10")
        si_co == pipline_get_sub_index(v[3], "CO")
    IN [Filename |-> filename, Timestamp |-> now,
        PM25 |-> v[1], PM10 |-> v[2], CO |-> v[3], CO2 |-> v[4],
        Final_AQI |-> PyMax3(si_pm25, si_pm10, si_co)]

\* filename.lower().endswith(('.jpg', '.png', '.jpeg')) on the extension.
IsImageName(f) == f.ext \in {"jpg", "png", "jpeg", "JPG", "PNG", "JPEG"}

\* The loop of run over os.listdir: all_data, rows stamped from time now on.
RECURSIVE pipline_all_data(_, _)
pipline_all_data(files, now) ==
    IF Len(files) = 0 THEN <<>>
    ELSE LET f == Head(files)
         IN IF ~IsImageName(f) \/ ~f.readable
            THEN pipline_all_data(Tail(files), now)
            ELSE <<pipline_row(f.img, f.name, now)>>
                   \o pipline_all_data(Tail(files), now + 1)

(***************************************************************************)
(* aqi_logs.csv.  A line is a sequence of cells, the blank line is <<>>.   *)
(* A cell is text (k = "s"), a number (k = "n", v its value) or an ISO     *)
(* timestamp (k = "t", v the clock reading it was formatted from).         *)
(***************************************************************************)
StrCell(str) == [k |-> "s", s |-> str, v |-> <<0, 1>>]
NumCell(r) == [k |-> "n", s |-> "", v |-> r]
TimeCell(t) == [k |-> "t", s |-> "", v |-> <<t, 1>>]

\* The column names of a row dictionary, in insertion order.
Columns == <<"Filename", "Timestamp", "PM25", "PM10", "CO", "CO2", "Final_AQI">>

HeaderLine == [i \in 1..Len(Columns) |-> StrCell(Columns[i])]

\* One row of a DataFrame as to_csv writes it.
CsvLine(row) ==
    <<StrCell(row.Filename), TimeCell(row.Timestamp),
      NumCell(Rat(row.PM25, 100)), NumCell(Rat(row.PM10, 100)),
      NumCell(Rat(row.CO, 100)), NumCell(Rat(row.CO2, 100)),
      NumCell(row.Final_AQI)>>

CsvLines(rows) == [i \in 1..Len(rows) |-> CsvLine(rows[i])]

\* Variant that writes the header at every append.
app3_to_csv_always_header(exists, file, row) ==
    file \o <<HeaderLine>> \o <<CsvLine(row)>>

\* df_new.to_csv(csv_path, mode='a', header=not os.path.exists(csv_path))
app3_to_csv(exists, file, row) ==
    file \o (IF ~exists THEN <<HeaderLine>> ELSE <<>>) \o <<CsvLine(row)>>

\* pd.DataFrame(all_data).to_csv("aqi_logs.csv", index=False): the file is
\* opened for writing; a frame without rows has no columns and is written
\* as one blank line.
pipline_to_csv(exists, file, rows) ==
    IF Len(rows) = 0 THEN << <<>> >> ELSE <<HeaderLine>> \o CsvLines(rows)

NonBlank(file) == SelectSeq(file, LAMBDA line : line # <<>>)

NoDash == [ok |-> FALSE, columns |-> <<>>, df |-> <<>>, latest |-> <<>>]

\* Lines 97-100 and 137: read_csv takes the first non-blank line as the
\* column names; a missing or empty file, a missing Timestamp column, a
\* Timestamp that is no date and an empty frame all raise, and the handler
\* catches every exception.
dashboard_load(exists, file) ==
    LET lines == NonBlank(file)
        cols == Head(lines)
        df == Tail(lines)
        tcol == CHOOSE i \in 1..Len(cols) : cols[i] = StrCell("Timestamp")
    IN IF ~exists \/ Len(lines) = 0 THEN NoDash
       ELSE IF ~\E i \in 1..Len(cols) : cols[i] = StrCell("Timestamp") THEN NoDash
       ELSE IF \E j \in 1..Len(df) : df[j][tcol].k = "s" THEN NoDash
       ELSE IF Len(df) = 0 THEN NoDash
       ELSE [ok |-> TRUE, columns |-> cols, df |-> df, latest |-> <<df[Len(df)]>>]

(***************************************************************************)
(* Inputs.  Images are 20 x 20; the i-th OCR result of an image is a 2 x 2 *)
(* box whose text starts with the digit i, so that the kept values can be  *)
(* told apart.  A box at x0 = 9 has its centre at 10, inside the band      *)
(* (7, 13); a box at x0 = 6 has its centre at 7, on the edge of the band.  *)
(***************************************************************************)
DigitChar == <<"1", "2", "3", "4", "5", "6", "7", "8", "9">>

\* "i0" (an integer), "i.5" (a decimal), "i.5." (two points: not a number).
TextOf(i, kind) ==
    IF kind = "int" THEN <<DigitChar[i], "0">>
    ELSE IF kind = "dec" THEN <<DigitChar[i], ".", "5">>
    ELSE <<DigitChar[i], ".", "5", ".">>

\* What an OCR result may be: a number of either kind or a non-number inside
\* the band, and a number on its edge.
Picks == {<<"int", 9>>, <<"dec", 9>>, <<"bad", 9>>, <<"int", 6>>}

\* Top edge of the i-th box: top to bottom, bottom to top, or in pairs that
\* share a height.
Layouts == {"asc", "desc", "tie"}

YOf(i, layout) ==
    IF layout = "asc" THEN 2 * i
    ELSE IF layout = "desc" THEN 2 * (MaxDet + 1 - i)
    ELSE 2 * ((i + 1) \div 2)

Box(x0, y0) == <<<<x0, y0>>, <<x0 + 2, y0>>, <<x0 + 2, y0 + 2>>, <<x0, y0 + 2>>>>

\* picks[i] = <<kind, x0>> describes the i-th OCR result.
MkImage(layout, picks) ==
    [h |-> 20, w |-> 20,
     ocr |-> [i \in 1..Len(picks) |->
                [bbox |-> Box(picks[i][2], YOf(i, layout)),
                 text |-> TextOf(i, picks[i][1])]]]

SeqsUpTo(S, n) == UNION {[1..k -> S] : k \in 0..n}

AllImages ==
    {MkImage(l, s) : l \in Layouts, s \in SeqsUpTo(Picks, MaxDet)}

MkFile(name, ext, readable, img) ==
    [name |-> name, ext |-> ext, readable |-> readable, img |-> img]

\* Three images for the runs of the log: five readings of which the lowest
\* four are taken, three readings only, and decimal readings.
SampleFiles ==
    {MkFile("a.jpg", "jpg", TRUE,
            MkImage("asc", <<<<"int", 9>>, <<"int", 9>>, <<"int", 9>>,
                             <<"int", 9>>, <<"int", 9>>>>)),
     MkFile("b.png", "png", TRUE,
            MkImage("asc", <<<<"int", 9>>, <<"int", 9>>, <<"int", 9>>>>)),
     MkFile("c.jpeg", "jpeg", TRUE,
            MkImage("desc", <<<<"dec", 9>>, <<"int", 9>>, <<"int", 9>>,
                              <<"dec", 9>>>>))}

\* What a folder may hold besides: a file that is no image by its name, and
\* an image file that cv2.imread cannot decode.
FolderFiles ==
    SampleFiles \cup
    {MkFile("notes.txt", "txt", TRUE, MkImage("asc", <<>>)),
     MkFile("broken.jpg", "jpg", FALSE, MkImage("asc", <<>>))}

Folders == SeqsUpTo(FolderFiles, MaxFolder)

Pollutants == {"PM25", "PM10", "CO", "CO2"}

\* Concentrations in hundredths: every band end of the tables, the values
\* 0.05 and 0.5 below and above it, a negative value and values past the
\* tables.
Concs ==
    UNION {{b[1] + d, b[2] + d} :
             b \in UNION {{app3_bps[p][i] : i \in DOMAIN app3_bps[p]} :
                            p \in DOMAIN app3_bps},
             d \in {-50, -5, 0, 5, 50}}
    \cup {-500, 4500, 100000}

(***************************************************************************)
(* Actions.                                                                *)
(***************************************************************************)
\* A call detector.get_sub_index(conc, pollutant) of the upload application.
CallApp3 ==
    /\ impl = "none"
    /\ impl' = "app3"
    /\ siRes' = <<app3_get_sub_index(conc, pollutant)>>
    /\ UNCHANGED <<conc, pollutant>>
    /\ UNCHANGED appVars

\* The same call in the batch pipeline.
CallPipline ==
    /\ impl = "none"
    /\ impl' = "pipline"
    /\ siRes' = <<pipline_get_sub_index(conc, pollutant)>>
    /\ UNCHANGED <<conc, pollutant>>
    /\ UNCHANGED appVars

\* A file is chosen in the sidebar; the script reruns without a click and
\* loads the dashboard.
Upload(f) ==
    /\ uploaded_file' = <<f>>
    /\ dash' = dashboard_load(logExists, logFile)
    /\ UNCHANGED <<logExists, logFile, new_data, all_data, batchDone,
                   produced, clock>>
    /\ UNCHANGED subVars

\* 'Process Image' is clicked: the row is computed and appended to the log,
\* and the rest of the script loads the dashboard.
ProcessClick ==
    /\ uploaded_file # <<>>
    /\ clock < MaxClock
    /\ LET row == app3_process_image_data(uploaded_file[1].img,
                                          uploaded_file[1].name, clock)
       IN /\ new_data' = <<row>>
          /\ logFile' = app3_to_csv(logExists, logFile, row)
          /\ produced' = Append(produced, row)
    /\ logExists' = TRUE
    /\ clock' = clock + 1
    /\ dash' = dashboard_load(logExists', logFile')
    /\ UNCHANGED <<uploaded_file, all_data, batchDone>>
    /\ UNCHANGED subVars

\* The page is loaded again without a new upload or click.
Rerun ==
    /\ dash' = dashboard_load(logExists, logFile)
    /\ UNCHANGED <<uploaded_file, logExists, logFile, new_data, all_data,
                   batchDone, produced, clock>>
    /\ UNCHANGED subVars

\* AQIAutoDetector().run() over a folder holding the given files.
BatchRun(files) ==
    /\ clock + Len(files) <= MaxClock
    /\ all_data' = pipline_all_data(files, clock)
    /\ batchDone' = TRUE
    /\ logFile' = pipline_to_csv(logExists, logFile, all_data')
    /\ logExists' = TRUE
    /\ clock' = clock + Len(all_data')
    /\ UNCHANGED <<uploaded_file, new_data, produced, dash>>
    /\ UNCHANGED subVars

(***************************************************************************)
(* Specifications.                                                         *)
(***************************************************************************)
InitApp ==
    /\ uploaded_file = <<>>
    /\ logExists = FALSE
    /\ logFile = <<>>
    /\ new_data = <<>>
    /\ all_data = <<>>
    /\ batchDone = FALSE
    /\ produced = <<>>
    /\ dash = NoDash
    /\ clock = 0

InitSubIdle ==
    /\ conc = 0
    /\ pollutant = "PM25"
    /\ impl = "none"
    /\ siRes = <<>>

\* The log under both programs.
Init == InitApp /\ InitSubIdle

Next ==
    \/ \E f \in SampleFiles : Upload(f)
    \/ ProcessClick
    \/ Rerun
    \/ \E files \in Folders : BatchRun(files)

Spec == Init /\ [][Next]_vars

\* The log under the upload application alone.
NextUpload ==
    \/ \E f \in SampleFiles : Upload(f)
    \/ ProcessClick
    \/ Rerun

SpecUpload == Init /\ [][NextUpload]_vars

\* get_sub_index on the concentrations of Concs.
InitSub ==
    /\ conc \in Concs
    /\ pollutant \in Pollutants
    /\ impl = "none"
    /\ siRes = <<>>
    /\ InitApp

NextSub == CallApp3 \/ CallPipline

SpecSub == InitSub /\ [][NextSub]_vars

\* One image, given to the upload application and, alone in its folder, to
\* the batch pipeline.
InitClassify ==
    /\ InitSubIdle
    /\ uploaded_file \in {<<MkFile("a.jpg", "jpg", TRUE, img)>> : img \in AllImages}
    /\ logExists = FALSE
    /\ logFile = <<>>
    /\ new_data = <<>>
    /\ all_data = <<>>
    /\ batchDone = FALSE
    /\ produced = <<>>
    /\ dash = NoDash
    /\ clock = 0

ProcessOnce == new_data = <<>> /\ ProcessClick

BatchOnce == ~batchDone /\ BatchRun(uploaded_file)

NextClassify == ProcessOnce \/ BatchOnce

SpecClassify == InitClassify /\ [][NextClassify]_vars

(***************************************************************************)
(* Claims about the breakpoint tables and get_sub_index (SpecSub).         *)
(***************************************************************************)
TableOf(im) == IF im = "pipline" THEN pipline_bps ELSE app3_bps

BothTables == {app3_bps, pipline_bps}

\* The bands of pollutant p in table t whose range contains c.
Matching(t, p, c) == {i \in DOMAIN t[p] : t[p][i][1] <= c /\ c <= t[p][i][2]}

TableMax(t, p) == SetMax({t[p][i][2] : i \in DOMAIN t[p]})

\* index_lo + (index_hi - index_lo) / (conc_hi - conc_lo) * (c - conc_lo)
Interpolation(b, c) ==
    Rat(b[3] * (b[2] - b[1]) + (b[4] - b[3]) * (c - b[1]), b[2] - b[1])

Called == impl # "none"

\* C1: for every pollutant of the table and every concentration c with
\* 0 <= c <= the table's maximum, exactly one band contains c.
C1_ExactlyOneBand ==
    \A t \in BothTables :
        (Called /\ pollutant \in DOMAIN t /\ 0 <= conc /\ conc <= TableMax(t, pollutant))
            => Cardinality(Matching(t, pollutant, conc)) = 1

\* C2: get_sub_index takes the no-band fallback only when c is above the
\* table's maximum; for a known pollutant and 0 < c <= maximum some band
\* contains c and the result is that band's interpolation.
C2_FallbackOnlyAboveMax ==
    (Called /\ pollutant \in DOMAIN TableOf(impl) /\ conc > 0)
        => LET t == TableOf(impl)
               m == Matching(t, pollutant, conc)
           IN /\ m = {} => conc > TableMax(t, pollutant)
              /\ conc <= TableMax(t, pollutant)
                   => \E i \in m : siRes[1] = Interpolation(t[pollutant][i], conc)

\* C3: for a known pollutant and c > 0 the result is the interpolation of
\* the first band, in table order, that contains c: index_lo at that band's
\* concentration_lo, index_hi at its concentration_hi; PM25 = 30 gives 50
\* and PM25 = 31 gives 51.
C3_FirstBandInterpolation ==
    (Called /\ pollutant \in DOMAIN TableOf(impl) /\ conc > 0)
        => LET t == TableOf(impl)
               m == Matching(t, pollutant, conc)
           IN /\ \A i \in m :
                    (\A j \in m : i <= j)
                        => LET b == t[pollutant][i]
                           IN /\ siRes[1] = Interpolation(b, conc)
                              /\ conc = b[1] => siRes[1] = <<b[3], 1>>
                              /\ conc = b[2] => siRes[1] = <<b[4], 1>>
              /\ (pollutant = "PM25" /\ conc = 3000) => siRes[1] = <<50, 1>>
              /\ (pollutant = "PM25" /\ conc = 3100) => siRes[1] = <<51, 1>>

\* PM25 = 250 ends one band and starts the next: the earlier band decides.
C3_Witness ==
    /\ impl = "app3"
    /\ pollutant = "PM25"
    /\ conc = 25000
    /\ siRes = << <<400, 1>> >>

\* C4: get_sub_index returns 0 whenever c <= 0 or the pollutant is not one
\* of PM25, PM10 and CO, whatever the other argument.
C4_ZeroOnInvalid ==
    (Called /\ (conc <= 0 \/ pollutant \notin {"PM25", "PM10", "CO"}))
        => siRes = << <<0, 1>> >>

\* A negative concentration of a known pollutant.
C4_Witness ==
    /\ impl = "app3"
    /\ pollutant = "PM25"
    /\ conc < 0
    /\ siRes = << <<0, 1>> >>

(***************************************************************************)
(* Claims about the rows of one image (SpecClassify).                      *)
(***************************************************************************)
TheImage == uploaded_file[1].img

\* A text of digits with at most one decimal point.
DigitsAndOnePoint(text) ==
    /\ \A i \in 1..Len(text) : text[i] \in Digits \cup {"."}
    /\ Cardinality({i \in 1..Len(text) : text[i] = "."}) <= 1
    /\ \E i \in 1..Len(text) : text[i] \in Digits

SumX(bbox) == bbox[1][1] + bbox[2][1] + bbox[3][1] + bbox[4][1]
SumY(bbox) == bbox[1][2] + bbox[2][2] + bbox[3][2] + bbox[4][2]

\* The detections of the image that survive both filters: the mean of the
\* corner x values lies strictly between 0.35 w and 0.65 w.
Kept ==
    {i \in 1..Len(TheImage.ocr) :
        /\ DigitsAndOnePoint(TheImage.ocr[i].text)
        /\ 4 * 35 * TheImage.w < 100 * SumX(TheImage.ocr[i].bbox)
        /\ 100 * SumX(TheImage.ocr[i].bbox) < 4 * 65 * TheImage.w}

KeptY(i) == SumY(TheImage.ocr[i].bbox)
KeptValue(i) == ParseFloat(TheImage.ocr[i].text)

\* The rows the two programs have made of the image.
RowsMade ==
    {new_data[i] : i \in 1..Len(new_data)} \cup {all_data[i] : i \in 1..Len(all_data)}

\* C5: Final_AQI of every produced row is round(max(sub-index of PM25, PM10,
\* CO)), an integer.
C5_FinalAqiRounded ==
    \A row \in RowsMade :
        /\ row.Final_AQI[2] = 1
        /\ row.Final_AQI[1] =
             PyRound(PyMax3(app3_get_sub_index(row.PM25, "PM25"),
                            app3_get_sub_index(row.PM10, "PM10"),
                            app3_get_sub_index(row.CO, "CO")))

\* C6: with at least four detections kept, the fields are the values of the
\* last four kept detections in ascending center_y order, PM25 first.
C6_LastFourByCenterY ==
    \A row \in RowsMade :
        Cardinality(Kept) >= 4 =>
            \E a, b, c, d \in Kept :
                /\ Cardinality({a, b, c, d}) = 4
                /\ KeptY(a) <= KeptY(b) /\ KeptY(b) <= KeptY(c) /\ KeptY(c) <= KeptY(d)
                /\ \A k \in Kept \ {a, b, c, d} : KeptY(k) <= KeptY(a)
                /\ row.PM25 = KeptValue(a) /\ row.PM10 = KeptValue(b)
                /\ row.CO = KeptValue(c) /\ row.CO2 = KeptValue(d)

\* Five readings 10 to 50 from top to bottom, all kept, in both programs.
C6_Witness ==
    /\ Cardinality(Kept) = 5
    /\ Len(new_data) = 1 /\ Len(all_data) = 1
    /\ \A row \in RowsMade :
          row.PM25 = 2000 /\ row.PM10 = 3000 /\ row.CO = 4000 /\ row.CO2 = 5000

RowIsZero(row) ==
    /\ row.PM25 = 0 /\ row.PM10 = 0 /\ row.CO = 0 /\ row.CO2 = 0
    /\ row.Final_AQI = <<0, 1>>

\* C7: with fewer than four detections kept every produced row has the four
\* fields and Final_AQI at 0, and each program ends its step with its row
\* as the last line of the log.
C7_FewDetectionsGiveZeros ==
    /\ [](Cardinality(Kept) < 4 => \A row \in RowsMade : RowIsZero(row))
    /\ [][Cardinality(Kept) < 4 =>
            /\ new_data' # new_data =>
                  /\ Len(new_data') = 1
                  /\ logFile'[Len(logFile')] = CsvLine(new_data'[1])
            /\ batchDone' # batchDone =>
                  /\ Len(all_data') = 1
                  /\ logFile'[Len(logFile')] = CsvLine(all_data'[1])]_vars

\* Four results of which one is on the edge of the band: three are kept.
C7_Witness ==
    /\ Len(TheImage.ocr) >= 4
    /\ Cardinality(Kept) = 3
    /\ Len(new_data) = 1 /\ batchDone /\ Len(all_data) = 1
    /\ \A row \in RowsMade : RowIsZero(row)
    /\ logFile[Len(logFile)] = CsvLine(new_data[1])

\* C10: for the same file both programs produce the same PM25, PM10, CO,
\* CO2 and Final_AQI.
C10_SameRow ==
    (Len(new_data) = 1 /\ Len(all_data) = 1) =>
        /\ new_data[1].PM25 = all_data[1].PM25
        /\ new_data[1].PM10 = all_data[1].PM10
        /\ new_data[1].CO = all_data[1].CO
        /\ new_data[1].CO2 = all_data[1].CO2
        /\ new_data[1].Final_AQI = all_data[1].Final_AQI

(***************************************************************************)
(* Claims about the log (Spec, SpecUpload).                                *)
(***************************************************************************)
\* C8: a write to aqi_logs.csv by either program keeps every row the log
\* held, unchanged and in place, and adds rows at its end only.
C8_AppendOnly ==
    [][\A i \in 1..Len(logFile) :
          logFile[i] \notin {<<>>, HeaderLine}
              => Len(logFile') >= i /\ logFile'[i] = logFile[i]]_vars

\* Column of the dashboard's frame by name.
ColumnOf(name) == CHOOSE j \in 1..Len(dash.columns) : dash.columns[j] = StrCell(name)

SameFields(line, row) ==
    /\ line[ColumnOf("Filename")] = StrCell(row.Filename)
    /\ line[ColumnOf("PM25")] = NumCell(Rat(row.PM25, 100))
    /\ line[ColumnOf("PM10")] = NumCell(Rat(row.PM10, 100))
    /\ line[ColumnOf("CO")] = NumCell(Rat(row.CO, 100))
    /\ line[ColumnOf("CO2")] = NumCell(Rat(row.CO2, 100))
    /\ line[ColumnOf("Final_AQI")] = NumCell(row.Final_AQI)

\* C9: in the upload application, from an absent log, after N appends the
\* dashboard reads N data rows, in append order and with the appended
\* fields; the header is written once, first, and is no data row.
C9_RoundTrip ==
    IF produced = <<>> THEN ~logExists /\ ~dash.ok
    ELSE /\ dash.ok
         /\ dash.columns = HeaderLine
         /\ Len(dash.df) = Len(produced)
         /\ \A i \in 1..Len(produced) : SameFields(dash.df[i], produced[i])
         /\ {i \in 1..Len(logFile) : logFile[i] = HeaderLine} = {1}
         /\ \A i \in 1..Len(dash.df) : dash.df[i] # HeaderLine

\* Three appends of different files read back.
C9_Witness ==
    /\ Len(produced) = 3
    /\ dash.ok
    /\ Len(dash.df) = 3
    /\ produced[1].Filename # produced[2].Filename

====
